---- MODULE Spec2Model ----
(***************************************************************************)
(* check-jenkins-build-time: lib/check_jenkins_build_time.go.              *)
(*                                                                         *)
(* Three specifications over one set of variables:                         *)
(*   Spec        one invocation of the plugin, Do() calling run()          *)
(*   SpecFilter  filterUnfinishedTooLongBuilds as a pure function          *)
(*   SpecTime    jsonTime.MarshalJSON / jsonTime.UnmarshalJSON             *)
(*                                                                         *)
(* Representation.  A time.Time is an integer count of clock ticks since   *)
(* the Unix epoch and a time.Duration a count of ticks; a second is Second *)
(* ticks.  Go's Duration is a 64-bit integer: the product on lines 125 and *)
(* 131 wraps around and Time.Sub clamps to the extreme Durations.  The     *)
(* model keeps both effects at a width of DurationBits bits, small enough  *)
(* for the model checker's integers.  A byte string is a sequence of       *)
(* one-character strings.  A nil pointer is the empty sequence and a       *)
(* pointer to s the sequence << s >>.                                      *)
(***************************************************************************)
EXTENDS Integers, Sequences, FiniteSets, TLC

\* ------------------------------------------------------------- bounds
\* Longest build list of a response body.
MaxBuilds == 2
\* Longest build list handed to the filter in SpecFilter.
MaxFilterLen == 3
\* Longest byte string handed to UnmarshalJSON in SpecTime.
MaxLen == 3
\* Width of a Duration in the model (64 in Go).
DurationBits == 6

\* ------------------------------------------------------ time package
\* time.Second in ticks (a tick is half a second here, a nanosecond in Go).
Second == 2

Modulus == 2 ^ DurationBits
MaxDuration == (2 ^ (DurationBits - 1)) - 1
MinDuration == 0 - (2 ^ (DurationBits - 1))

\* A Duration product, wrapped to the Duration width as Go's int64 product is.
Wrap(n) ==
  LET m == n % Modulus
  IN  IF m > MaxDuration THEN m - Modulus ELSE m

\* t.Sub(u) computed without the clamp: a plain wrapping subtraction.
SubWrapping(t, u) ==
  Wrap(t - u)

\* t.Sub(u): the difference, clamped to [MinDuration, MaxDuration].
Sub(t, u) ==
  LET d == t - u
  IN  IF d > MaxDuration THEN MaxDuration
      ELSE IF d < MinDuration THEN MinDuration
      ELSE d

\* time.Unix(sec, 0)
UnixTime(sec) ==
  sec * Second

\* t.Unix(): whole seconds since the epoch, rounded down.
Unix(t) ==
  t \div Second

\* The zero time.Time, January 1 of year 1: further from every clock reading
\* than a Duration can express.
ZeroTime ==
  0 - (Second * 3 * MaxDuration)

\* Go's integer division, which truncates toward zero.
TruncDiv(a, b) ==
  IF a >= 0 THEN a \div b ELSE 0 - ((0 - a) \div b)

\* --------------------------------------------------- strconv package
Digits == << "0", "1", "2", "3", "4", "5", "6", "7", "8", "9" >>

IsDigit(c) ==
  \E i \in 1..10 : Digits[i] = c

DigitVal(c) ==
  (CHOOSE i \in 1..10 : Digits[i] = c) - 1

RECURSIVE FormatNat(_)
FormatNat(n) ==
  IF n < 10 THEN << Digits[n + 1] >>
  ELSE Append(FormatNat(n \div 10), Digits[(n % 10) + 1])

\* strconv.FormatInt(n, 10), also what Sprintf's %d prints.
FormatInt(n) ==
  IF n < 0 THEN << "-" >> \o FormatNat(0 - n) ELSE FormatNat(n)

RECURSIVE ParseNat(_, _)
ParseNat(s, acc) ==
  IF s = << >> THEN acc ELSE ParseNat(Tail(s), (acc * 10) + DigitVal(Head(s)))

\* strconv.ParseInt(s, 10, 64): an optional sign, then one digit or more.
\* (The inputs of the model are far too short for a range error.)
ParseInt(s) ==
  LET signed == s # << >> /\ Head(s) \in {"+", "-"}
      body   == IF signed THEN Tail(s) ELSE s
      ok     == body # << >> /\ \A i \in 1..Len(body) : IsDigit(body[i])
  IN  IF ~ok THEN [val |-> 0, err |-> "ParseError"]
      ELSE [val |-> IF signed /\ Head(s) = "-" THEN 0 - ParseNat(body, 0)
                    ELSE ParseNat(body, 0),
            err |-> "nil"]

Quote == "\""

\* strings.Replace(s, `"`, ``, -1): every quote character removed.
RemoveQuotes(s) ==
  SelectSeq(s, LAMBDA c : c # Quote)

\* ----------------------------------------------------------- jsonTime
\* The divisor of line 65: milliseconds in a second.
MillisPerSecond == 1000

\* jsonTime.MarshalJSON: the decimal text of t.Unix().
MarshalJSON(t) ==
  FormatInt(Unix(t))

\* jsonTime.UnmarshalJSON on the target value t and the bytes s: the new value
\* of the target and the error returned.
UnmarshalJSON(t, s) ==
  LET r == RemoveQuotes(s)
      p == ParseInt(r)
  IN  IF p.err # "nil" THEN [t |-> t, err |-> p.err]
      ELSE [t |-> UnixTime(TruncDiv(p.val, MillisPerSecond)), err |-> "nil"]

\* -------------------------------------------------------------- build
\* The zero value of the struct build.
ZeroBuild ==
  [Number |-> 0, Result |-> << >>, Timestamp |-> ZeroTime]

isUnfinished(b) ==
  b.Result = << >>

\* The loop condition of line 97 with a non-strict comparison.
tooLongOrEqual(b, threshold, now) ==
  isUnfinished(b) /\ Sub(now, b.Timestamp) >= threshold

\* The loop condition of line 97 on a wrapping subtraction.
tooLongWrapping(b, threshold, now) ==
  isUnfinished(b) /\ SubWrapping(now, b.Timestamp) > threshold

\* The loop condition of line 97; now is the clock reading of line 93.
tooLong(b, threshold, now) ==
  isUnfinished(b) /\ Sub(now, b.Timestamp) > threshold

RECURSIVE filterLoop(_, _, _, _)
filterLoop(bs, threshold, now, ret) ==
  IF bs = << >> THEN ret
  ELSE filterLoop(Tail(bs), threshold, now,
                  IF tooLong(Head(bs), threshold, now)
                  THEN Append(ret, Head(bs)) ELSE ret)

\* The filter building its result back to front.
filterReversed(bs, threshold, now) ==
  LET r == filterLoop(bs, threshold, now, << >>)
  IN  [i \in 1..Len(r) |-> r[Len(r) + 1 - i]]

\* filterUnfinishedTooLongBuilds, given the value time.Now() returns in it.
filterUnfinishedTooLongBuilds(bs, threshold, now) ==
  filterLoop(bs, threshold, now, << >>)

\* ------------------------------------------------------ encoding/json
\* One element of the "builds" array as it stands in the body, its keys in the
\* order Jenkins writes them (number, result, timestamp; lines 33 to 38):
\*   number     << n >>, or << >> when the key is absent or no integer
\*   result     << s >>, or << >> for null or an absent key
\*   timestamp  the bytes of the value, or << >> when the key is absent
\* decodeBuild gives the struct as the decoder leaves it and the error that
\* stopped it.
decodeBuild(raw) ==
  LET b1 == [ZeroBuild EXCEPT !.Number = IF raw.number = << >> THEN 0
                                         ELSE raw.number[1],
                              !.Result = raw.result]
      u  == UnmarshalJSON(b1.Timestamp, raw.timestamp)
  IN  IF raw.timestamp = << >> THEN [b |-> b1, err |-> "nil"]
      ELSE [b |-> [b1 EXCEPT !.Timestamp = u.t], err |-> u.err]

\* The array loop of the decoder: an element is appended before it is filled,
\* and an error of an Unmarshaler stops the decoding where it stands.
RECURSIVE decodeBuilds(_, _)
decodeBuilds(raws, acc) ==
  IF raws = << >> THEN [Builds |-> acc, err |-> "nil"]
  ELSE LET r == decodeBuild(Head(raws))
       IN  IF r.err # "nil" THEN [Builds |-> Append(acc, r.b), err |-> r.err]
           ELSE decodeBuilds(Tail(raws), Append(acc, r.b))

\* json.NewDecoder(resp.Body).Decode(&builds) into the zero value of builds: a
\* body that is no JSON text is refused before anything is stored.
Decode(body) ==
  IF body.kind = "malformed" THEN [Builds |-> << >>, err |-> "SyntaxError"]
  ELSE decodeBuilds(body.builds, << >>)

\* ----------------------------------------------------------- checkers
NewChecker(st, msg) ==
  [Status |-> st, Message |-> msg, Name |-> ""]

\* checkers.Unknown(msg)
Unknown(msg) ==
  NewChecker("UNKNOWN", msg)

\* The exit code Checker.Exit leaves with.
ExitCode(st) ==
  CASE st = "OK" -> 0
    [] st = "WARNING" -> 1
    [] st = "CRITICAL" -> 2
    [] OTHER -> 3

\* An Exit that leaves without printing the verdict.
ExitSilent(c, o) ==
  [out |-> o, code |-> << ExitCode(c.Status) >>]

\* ckr.Exit() after the output o so far: one line with the checker's name,
\* status and message, then the exit code.
Exit(c, o) ==
  [out |-> Append(o, c), code |-> << ExitCode(c.Status) >>]

\* ---------------------------------------------------------------- run
VARIABLES
  pc,        \* where the invocation stands
  opts,      \* the global opts: the two thresholds, in seconds
  nGet,      \* how many times http.Get was called
  got,       \* what http.Get returned: err and resp
  builds,    \* builds.Builds
  decErr,    \* what Decode returned on line 121 (run drops it)
  t1,        \* << now >> of the filter call of line 125, << >> before it
  t2,        \* << now >> of the filter call of line 131, << >> before it
  ckr,       \* << the Checker run returned >>, << >> before it
  out,       \* the verdict lines printed so far
  exitCode,  \* << the exit code >> once the process has left
  fpc, fin, fret,          \* SpecFilter: position, input, result
  tpc, traw, tt, tbytes, tres  \* SpecTime: position, inputs, results

vars ==
  << pc, opts, nGet, got, builds, decErr, t1, t2, ckr, out, exitCode,
     fpc, fin, fret, tpc, traw, tt, tbytes, tres >>

runVars == << pc, opts, nGet, got, builds, decErr, t1, t2, ckr, out, exitCode >>
filterVars == << fpc, fin, fret >>
timeVars == << tpc, traw, tt, tbytes, tres >>

\* The sequences over S of length n at most.
SeqsUpTo(S, n) ==
  UNION { [1..k -> S] : k \in 0..n }

\* Values of --critical-second and --warning-second: one, three, and one whose
\* product with time.Second no longer fits a Duration of DurationBits bits.
FlagSeconds == {1, 3, 17}

\* Readings of the wall clock, in ticks.
Clock == {18, 19}

NetErrors == {"connection refused", "no such host"}

StatusCodes == {200, 503}

Null == << "n", "u", "l", "l" >>

\* Build numbers of the sample of lines 35 and 41.
RawNumbers == {<< 57 >>, << 51 >>}
RawResults == {<< >>, << "SUCCESS" >>}
\* -7000 (long ago), "6500" (quoted, six seconds), null, and no timestamp key.
RawTimestamps ==
  { << "-", "7", "0", "0", "0" >>, << Quote, "6", "5", "0", "0", Quote >>,
    Null, << >> }
\* Every combination of the above, and one element with no number key.
RawBuilds ==
  [number : RawNumbers, result : RawResults, timestamp : RawTimestamps]
    \cup { [number |-> << >>, result |-> << >>,
            timestamp |-> << "-", "7", "0", "0", "0" >>] }

Bodies ==
  { [kind |-> "malformed", builds |-> << >>] }
    \cup { [kind |-> "json", builds |-> bs] : bs \in SeqsUpTo(RawBuilds, MaxBuilds) }

NoResponse ==
  [status |-> 0, body |-> [kind |-> "none", builds |-> << >>]]

\* What http.Get can return: an error and no response, or a response.
GetResults ==
  { [err |-> e, resp |-> NoResponse] : e \in NetErrors }
    \cup { [err |-> "nil", resp |-> [status |-> c, body |-> b]] :
             c \in StatusCodes, b \in Bodies }

\* The test of line 115 extended to refuse a status outside 2xx.
FetchFailedOrNot2xx(r) ==
  r.err # "nil" \/ r.resp.status \notin 200..299

\* The test of line 115.
FetchFailed(r) ==
  r.err # "nil"

\* The critical threshold computed from the warning flag.
CritThresholdFromWarning(o) ==
  Wrap(Second * o.WarningSecond)

\* time.Second*time.Duration(opts.CritSecond), line 125
CritThreshold(o) ==
  Wrap(Second * o.CritSecond)

\* time.Second*time.Duration(opts.WarningSecond), line 131
WarnThreshold(o) ==
  Wrap(Second * o.WarningSecond)

\* Sprintf("Build id = %d takes too long time", b.Number)
tooLongMessage(b) ==
  << "Build id = " >> \o FormatInt(b.Number) \o << " takes too long time" >>

\* The body of the loops of lines 125 and 131 on their first element.
report(st, ret) ==
  NewChecker(st, tooLongMessage(ret[1]))

InitRun ==
  /\ pc = "start"
  /\ opts = [CritSecond |-> 0, WarningSecond |-> 0]
  /\ nGet = 0
  /\ got = [err |-> "nil", resp |-> NoResponse]
  /\ builds = << >>
  /\ decErr = "nil"
  /\ t1 = << >>
  /\ t2 = << >>
  /\ ckr = << >>
  /\ out = << >>
  /\ exitCode = << >>

IdleRun ==
  /\ pc = "idle"
  /\ opts = [CritSecond |-> 0, WarningSecond |-> 0]
  /\ nGet = 0
  /\ got = [err |-> "nil", resp |-> NoResponse]
  /\ builds = << >>
  /\ decErr = "nil"
  /\ t1 = << >>
  /\ t2 = << >>
  /\ ckr = << >>
  /\ out = << >>
  /\ exitCode = << >>

IdleFilter ==
  /\ fpc = "idle"
  /\ fin = [builds |-> << >>, threshold |-> 0, now |-> 0]
  /\ fret = << >>

IdleTime ==
  /\ tpc = "idle"
  /\ traw = << >>
  /\ tt = 0
  /\ tbytes = << >>
  /\ tres = [t |-> 0, err |-> "nil"]

\* flags.ParseArgs succeeds (lines 105 to 108).
ParseArgsOk ==
  /\ pc = "start"
  /\ \E c \in FlagSeconds, w \in FlagSeconds :
       opts' = [CritSecond |-> c, WarningSecond |-> w]
  /\ pc' = "get"
  /\ UNCHANGED << nGet, got, builds, decErr, t1, t2, ckr, out, exitCode >>
  /\ UNCHANGED << filterVars, timeVars >>

\* flags.ParseArgs fails: os.Exit(1), line 107.
ParseArgsError ==
  /\ pc = "start"
  /\ pc' = "exited"
  /\ exitCode' = << 1 >>
  /\ UNCHANGED << opts, nGet, got, builds, decErr, t1, t2, ckr, out >>
  /\ UNCHANGED << filterVars, timeVars >>

\* http.Get and the test of its error (lines 113 to 117).
HttpGet ==
  /\ pc = "get"
  /\ \E r \in GetResults :
       /\ got' = r
       /\ IF FetchFailed(r)
          THEN /\ ckr' = << Unknown(<< "Faild to fetch jenkins metrics: ", r.err >>) >>
               /\ pc' = "returned"
          ELSE /\ ckr' = ckr
               /\ pc' = "decode"
  /\ nGet' = nGet + 1
  /\ UNCHANGED << opts, builds, decErr, t1, t2, out, exitCode >>
  /\ UNCHANGED << filterVars, timeVars >>

\* A run that gives up on a decode error.
RunDecodeChecked ==
  /\ pc = "decode"
  /\ LET d == Decode(got.resp.body)
     IN  /\ builds' = d.Builds
         /\ decErr' = d.err
         /\ IF d.err # "nil"
            THEN /\ ckr' = << Unknown(<< "Faild to decode: ", d.err >>) >>
                 /\ pc' = "returned"
            ELSE /\ ckr' = ckr
                 /\ pc' = "critical"
  /\ UNCHANGED << opts, nGet, got, t1, t2, out, exitCode >>
  /\ UNCHANGED << filterVars, timeVars >>

\* Lines 119 to 123: the body is decoded and the error of Decode dropped.
RunDecode ==
  /\ pc = "decode"
  /\ LET d == Decode(got.resp.body)
     IN  /\ builds' = d.Builds
         /\ decErr' = d.err
  /\ pc' = "critical"
  /\ UNCHANGED << opts, nGet, got, t1, t2, ckr, out, exitCode >>
  /\ UNCHANGED << filterVars, timeVars >>

\* Lines 125 to 129: the critical filter, which reads the clock.
RunCritical ==
  /\ pc = "critical"
  /\ \E now \in Clock :
       LET ret == filterUnfinishedTooLongBuilds(builds, CritThreshold(opts), now)
       IN  /\ t1' = << now >>
           /\ IF ret # << >>
              THEN /\ ckr' = << report("CRITICAL", ret) >>
                   /\ pc' = "returned"
              ELSE /\ ckr' = ckr
                   /\ pc' = "warning"
  /\ UNCHANGED << opts, nGet, got, builds, decErr, t2, out, exitCode >>
  /\ UNCHANGED << filterVars, timeVars >>

\* Lines 131 to 136: the warning filter, which reads the clock again.
RunWarning ==
  /\ pc = "warning"
  /\ \E now \in Clock :
       LET ret == filterUnfinishedTooLongBuilds(builds, WarnThreshold(opts), now)
       IN  /\ t2' = << now >>
           /\ IF ret # << >>
              THEN ckr' = << report("WARNING", ret) >>
              ELSE ckr' = << NewChecker("OK", << "No build that takes too long time exists" >>) >>
  /\ pc' = "returned"
  /\ UNCHANGED << opts, nGet, got, builds, decErr, t1, out, exitCode >>
  /\ UNCHANGED << filterVars, timeVars >>

\* Do, lines 88 and 89: the checker is named and Exit prints it and leaves.
DoExit ==
  /\ pc = "returned"
  /\ LET e == Exit([ckr[1] EXCEPT !.Name = "JenkinsBuildTime"], out)
     IN  /\ out' = e.out
         /\ exitCode' = e.code
  /\ pc' = "exited"
  /\ UNCHANGED << opts, nGet, got, builds, decErr, t1, t2, ckr >>
  /\ UNCHANGED << filterVars, timeVars >>

Init ==
  InitRun /\ IdleFilter /\ IdleTime

Next ==
  \/ ParseArgsOk
  \/ ParseArgsError
  \/ HttpGet
  \/ RunDecode
  \/ RunCritical
  \/ RunWarning
  \/ DoExit

Spec ==
  Init /\ [][Next]_vars

\* --------------------------------------------------------- SpecFilter
\* filterUnfinishedTooLongBuilds on every build list, threshold and clock
\* reading of a bounded set.
FilterTimes ==
  {ZeroTime, UnixTime(6), UnixTime(40)}

\* A build with no result, and one whose result is the empty string.
FilterBuilds ==
  [Number : {57, 51}, Result : {<< >>, << "" >>}, Timestamp : FilterTimes]

FilterThresholds ==
  {MinDuration, 0 - Second, 3 * Second, MaxDuration}

InitFilter ==
  /\ IdleRun
  /\ IdleTime
  /\ fpc = "call"
  /\ fin \in [builds : SeqsUpTo(FilterBuilds, MaxFilterLen),
              threshold : FilterThresholds, now : Clock]
  /\ fret = << >>

\* Lines 92 to 102.
CallFilter ==
  /\ fpc = "call"
  /\ fret' = filterUnfinishedTooLongBuilds(fin.builds, fin.threshold, fin.now)
  /\ fpc' = "return"
  /\ UNCHANGED << fin, runVars, timeVars >>

NextFilter ==
  CallFilter

SpecFilter ==
  InitFilter /\ [][NextFilter]_vars

\* ----------------------------------------------------------- SpecTime
\* MarshalJSON and UnmarshalJSON on every byte string of MaxLen characters at
\* most over Alphabet, a few longer ones, and a bounded set of times.
Alphabet == {"0", "7", Quote, "-"}

RawInputs ==
  SeqsUpTo(Alphabet, MaxLen)
    \cup { Null, << "7", "5", "0", "0" >>, << Quote, "7", "5", "0", "0", Quote >>,
           << "-", "1", "5", "0", "0" >>, << "1", ".", "5" >>, << "+", "7" >> }

TimeInputs ==
  { ZeroTime, 0, 1, UnixTime(1), UnixTime(7) + 1, UnixTime(1000),
    UnixTime(1500) + 1, 0 - 1, UnixTime(0 - 2000) }

InitTime ==
  /\ IdleRun
  /\ IdleFilter
  /\ tpc = "ready"
  /\ traw \in RawInputs
  /\ tt \in TimeInputs
  /\ tbytes = << >>
  /\ tres = [t |-> 0, err |-> "nil"]

\* t.UnmarshalJSON(traw) on a target holding tt.
CallUnmarshal ==
  /\ tpc = "ready"
  /\ tres' = UnmarshalJSON(tt, traw)
  /\ tpc' = "unmarshalled"
  /\ UNCHANGED << traw, tt, tbytes, runVars, filterVars >>

\* tt.MarshalJSON()
CallMarshal ==
  /\ tpc = "ready"
  /\ tbytes' = MarshalJSON(tt)
  /\ tpc' = "marshalled"
  /\ UNCHANGED << traw, tt, tres, runVars, filterVars >>

\* The bytes MarshalJSON produced, decoded into a zero jsonTime.
CallRoundTrip ==
  /\ tpc = "marshalled"
  /\ tres' = UnmarshalJSON(ZeroTime, tbytes)
  /\ tpc' = "decoded"
  /\ UNCHANGED << traw, tt, tbytes, runVars, filterVars >>

NextTime ==
  \/ CallUnmarshal
  \/ CallMarshal
  \/ CallRoundTrip

SpecTime ==
  InitTime /\ [][NextTime]_vars

\* -------------------------------------------------------------- claims
\* The vocabulary of the claims, written apart from the operators above.

\* The elapsed time of build b at the clock reading now, as a Duration.
Elapsed(now, b) ==
  Sub(now, b.Timestamp)

\* The positions in bs of the builds with no result whose elapsed time at now
\* is strictly over the Duration T.
Offending(bs, now, T) ==
  { i \in 1..Len(bs) : bs[i].Result = << >> /\ Elapsed(now, bs[i]) > T }

\* The two thresholds as the Durations run hands to the filter.
CriticalDuration == Wrap(Second * opts.CritSecond)
WarningDuration == Wrap(Second * opts.WarningSecond)

Least(S) ==
  CHOOSE i \in S : \A j \in S : i <= j

Returned == ckr # << >>
FetchedOk == Returned /\ got.err = "nil"
Verdict == ckr[1].Status
Message == ckr[1].Message
OkMessage == << "No build that takes too long time exists" >>

BuildMessage(n) ==
  << "Build id = " >> \o FormatInt(n) \o << " takes too long time" >>

CritAtT1 == Offending(builds, t1[1], CriticalDuration)
WarnAtT2 == Offending(builds, t2[1], WarningDuration)

\* C1: the filter returns, in input order, exactly the builds with no result
\* whose elapsed time is strictly over the threshold; a build with a result is
\* never returned, nor one whose elapsed time is the threshold or less.
C1_FilterExact ==
  fpc = "return" =>
    /\ fret = SelectSeq(fin.builds,
                        LAMBDA b : b.Result = << >>
                                   /\ Elapsed(fin.now, b) > fin.threshold)
    /\ \A k \in 1..Len(fret) :
         /\ fret[k].Result = << >>
         /\ ~(Elapsed(fin.now, fret[k]) <= fin.threshold)
    /\ Len(fret) = Cardinality(Offending(fin.builds, fin.now, fin.threshold))

\* A call on three builds that keeps the last one only: the first has a
\* result and an elapsed time over the threshold, the second no result and an
\* elapsed time equal to the threshold.
C1_Witness ==
  /\ fpc = "return"
  /\ Len(fin.builds) = 3
  /\ fin.builds[1].Result # << >>
  /\ Elapsed(fin.now, fin.builds[1]) > fin.threshold
  /\ fin.builds[2].Result = << >>
  /\ Elapsed(fin.now, fin.builds[2]) = fin.threshold
  /\ fret = << fin.builds[3] >>

\* C2: after a successful fetch the verdict is CRITICAL iff a build offends the
\* critical threshold at the first clock reading; otherwise the warning filter
\* is evaluated and the verdict is WARNING iff a build offends the warning
\* threshold at the second reading; otherwise OK with the fixed message.  The
\* critical check comes first whatever the order of the thresholds, and an
\* empty list gives OK.
C2_Severity ==
  FetchedOk =>
    /\ t1 # << >>
    /\ Verdict = "CRITICAL" <=> CritAtT1 # { }
    /\ CritAtT1 # { } => t2 = << >>
    /\ CritAtT1 = { } =>
         /\ t2 # << >>
         /\ Verdict = "WARNING" <=> WarnAtT2 # { }
         /\ WarnAtT2 = { } => Verdict = "OK" /\ Message = OkMessage
    /\ builds = << >> => Verdict = "OK"

\* Critical below warning, and a build over the critical threshold but not
\* over the warning threshold: CRITICAL.
C2_Witness ==
  /\ FetchedOk
  /\ pc = "exited"
  /\ CriticalDuration < WarningDuration
  /\ Verdict = "CRITICAL"
  /\ \A i \in 1..Len(builds) :
       builds[i].Result = << >> => Elapsed(t1[1], builds[i]) <= WarningDuration

\* C3: a CRITICAL or WARNING verdict carries the message "Build id = <n> takes
\* too long time" with n the number of the first build of the list, in input
\* order, that offends the threshold of the reported severity.
C3_FirstBuild ==
  Returned =>
    /\ Verdict = "CRITICAL" =>
         /\ CritAtT1 # { }
         /\ Message = BuildMessage(builds[Least(CritAtT1)].Number)
    /\ Verdict = "WARNING" =>
         /\ WarnAtT2 # { }
         /\ Message = BuildMessage(builds[Least(WarnAtT2)].Number)

\* Two builds with different numbers offend; the first is the one reported.
C3_Witness ==
  /\ Returned
  /\ pc = "exited"
  /\ Verdict = "WARNING"
  /\ Cardinality(WarnAtT2) = 2
  /\ builds[1].Number = 51
  /\ builds[2].Number = 57
  /\ out[1].Message = << "Build id = ", "5", "1", " takes too long time" >>

\* C4: the verdict is UNKNOWN iff http.Get returned an error; then the message
\* is the fixed text followed by the error, http.Get was called once, and no
\* build was decoded or filtered.  A run whose fetch returned a response,
\* whatever its status code or body, does not end in UNKNOWN.
C4_UnknownIffFetchFailed ==
  /\ nGet <= 1
  /\ Returned =>
       /\ Verdict = "UNKNOWN" <=> got.err # "nil"
       /\ got.err # "nil" =>
            /\ Message = << "Faild to fetch jenkins metrics: ", got.err >>
            /\ nGet = 1
            /\ builds = << >> /\ decErr = "nil"
            /\ t1 = << >> /\ t2 = << >>

C4_Witness ==
  /\ pc = "exited"
  /\ got.err = "connection refused"
  /\ Len(out) = 1
  /\ out[1].Status = "UNKNOWN"
  /\ out[1].Message = << "Faild to fetch jenkins metrics: ", "connection refused" >>

\* C5: a time encoded by MarshalJSON and decoded back by UnmarshalJSON is the
\* time truncated to whole seconds.
C5_RoundTrip ==
  tpc = "decoded" =>
    /\ tres.err = "nil"
    /\ tres.t = UnixTime(Unix(tt))

\* Only one pair of surrounding quote characters removed.
TrimQuotes(s) ==
  IF Len(s) >= 2 /\ s[1] = Quote /\ s[Len(s)] = Quote
  THEN SubSeq(s, 2, Len(s) - 1)
  ELSE s

\* A decimal integer, bare or in one pair of surrounding quotes.
IsQuotedDecimal(s) ==
  ParseInt(TrimQuotes(s)).err = "nil"

\* C6: UnmarshalJSON fails, leaving the target unchanged, on every input that
\* is no decimal integer once a pair of surrounding quotes is stripped; it
\* succeeds only on a decimal integer, bare or in one pair of quotes.
C6_RejectsNonDecimal ==
  tpc = "unmarshalled" =>
    /\ ~IsQuotedDecimal(traw) => tres.err # "nil" /\ tres.t = tt
    /\ tres.err = "nil" => IsQuotedDecimal(traw)

\* C7: a timestamp that does not parse is a hard failure seen in the outcome:
\* the run does not end with a verdict of the severity resolution.
C7_DecodeErrorSeen ==
  (Returned /\ decErr = "ParseError") =>
    Verdict \notin {"OK", "WARNING", "CRITICAL"}

\* The list the body holds, the empty list if it is no JSON text.
RawList == got.resp.body.builds

\* Whether the bytes of a timestamp value are refused by UnmarshalJSON.
Unparsable(s) ==
  s # << >> /\ UnmarshalJSON(ZeroTime, s).err # "nil"

\* C8: a response whose body is malformed, wholly or in part, does not abort
\* the check: what failed to decode holds its zero value, the severity
\* resolution runs and the verdict is OK, WARNING or CRITICAL, computed from
\* what was decoded.
C8_MalformedTolerated ==
  FetchedOk =>
    /\ t1 # << >>
    /\ Verdict \in {"OK", "WARNING", "CRITICAL"}
    /\ got.resp.body.kind = "malformed" => builds = << >>
    /\ Len(builds) <= Len(RawList)
    /\ \A i \in 1..Len(builds) :
         /\ builds[i].Number = IF RawList[i].number = << >> THEN 0
                               ELSE RawList[i].number[1]
         /\ builds[i].Result = RawList[i].result
         /\ (RawList[i].timestamp = << >> \/ Unparsable(RawList[i].timestamp))
              => builds[i].Timestamp = ZeroTime
    /\ Verdict = IF CritAtT1 # { } THEN "CRITICAL"
                 ELSE IF WarnAtT2 # { } THEN "WARNING" ELSE "OK"

\* A timestamp that does not parse in the second of two builds: the build
\* keeps the zero time and, having no result, makes the verdict CRITICAL.
C8_Witness ==
  /\ FetchedOk
  /\ pc = "exited"
  /\ decErr = "ParseError"
  /\ Len(builds) = 2
  /\ RawList[2].timestamp = Null
  /\ builds[2].Timestamp = ZeroTime
  /\ builds[1].Result # << >>
  /\ out[1].Status = "CRITICAL"
  /\ out[1].Message = BuildMessage(builds[2].Number)

Verdicts == {"OK", "WARNING", "CRITICAL", "UNKNOWN"}

\* C9: every invocation that has ended, on every path, has produced exactly
\* one verdict and one message.
C9_OneVerdictAlways ==
  pc = "exited" =>
    /\ Len(out) = 1
    /\ out[1].Status \in Verdicts

\* C9, amended: no invocation prints more than one verdict; one whose
\* arguments parsed ends with exactly one, named JenkinsBuildTime, and the
\* exit code of its status; one whose arguments did not parse ends with exit
\* code 1 and no verdict.
C9_OneVerdictOnceParsed ==
  /\ Len(out) <= 1
  /\ pc = "exited" =>
       IF nGet = 0
       THEN out = << >> /\ exitCode = << 1 >>
       ELSE /\ Len(out) = 1
            /\ out[1].Status \in Verdicts
            /\ out[1].Name = "JenkinsBuildTime"
            /\ out[1].Status = Verdict /\ out[1].Message = Message
            /\ exitCode = << ExitCode(Verdict) >>

\* A malformed part of the body and two offending builds: one verdict.
C9_Witness ==
  /\ pc = "exited"
  /\ decErr = "ParseError"
  /\ Cardinality(CritAtT1) = 2
  /\ Len(out) = 1
  /\ exitCode = << 2 >>

\* C10: with the warning threshold no greater than the critical one, every
\* build the critical filter selects at t1 is selected by the warning filter
\* at any later reading; with t2 >= t1 a verdict OK means no build offends the
\* warning threshold at t2 nor either threshold at t1, and a verdict WARNING
\* means no build offended the critical threshold at t1.
C10_NeverLessSevere ==
  (FetchedOk /\ WarningDuration <= CriticalDuration) =>
    /\ \A t \in Clock :
         t >= t1[1] => CritAtT1 \subseteq Offending(builds, t, WarningDuration)
    /\ (Verdict = "OK" /\ t2[1] >= t1[1]) =>
         /\ WarnAtT2 = { }
         /\ Offending(builds, t1[1], WarningDuration) = { }
         /\ CritAtT1 = { }
    /\ Verdict = "WARNING" => CritAtT1 = { }

\* The clock moved between the two readings, and a build that offends the
\* warning threshold only at the second one makes the verdict WARNING.
C10_Witness ==
  /\ FetchedOk
  /\ pc = "exited"
  /\ WarningDuration <= CriticalDuration
  /\ t2 # << >>
  /\ t2[1] > t1[1]
  /\ Verdict = "WARNING"
  /\ Offending(builds, t1[1], WarningDuration) = { }

====
